---- MODULE Spec2Model ----
(***************************************************************************)
(* Model of convert.py: the conversion of a MIDI file into a text log of   *)
(* note events (action|pitch|time), one line per note event.               *)
(*                                                                         *)
(* Time.  absolute_second_time is a Python float.  The model keeps it as   *)
(* an exact rational: an integer number of units of                        *)
(* 1 / (1000000 * Resolution) seconds.  Floating-point rounding of the     *)
(* individual additions is not modelled.                                   *)
(***************************************************************************)
EXTENDS Integers, Sequences, FiniteSets

\* ------------------------------------------------------------------------
\* Program constants
\* ------------------------------------------------------------------------
TARGET_SIZE == 36
BASE_NOTE == 36

\* ------------------------------------------------------------------------
\* Bounds of the model
\* ------------------------------------------------------------------------
\* largest number of tracks of an input file
MaxTracks == 2
\* largest number of messages of an input file, all tracks together
MaxMessages == 3

\* ------------------------------------------------------------------------
\* Arithmetic helpers
\* ------------------------------------------------------------------------
\* n / d rounded to the nearest integer, ties to even (Python's round() and
\* the rounding of the format specifications .5f and .2f), for n >= 0, d > 0
RoundHalfEven(n, d) ==
    LET q == n \div d
        r == n % d
    IN  IF 2 * r > d THEN q + 1
        ELSE IF 2 * r = d THEN q + (q % 2)
        ELSE q

\* mido.bpm2tempo(bpm): int(round(60 * 1e6 / bpm)), microseconds per beat
bpm2tempo(bpm) == RoundHalfEven(60000000, bpm)

\* mido.tempo2bpm(tempo) as printed with :.2f, in hundredths of a BPM
tempo2bpm(tempo) ==
    (60000000 \div tempo) * 100 + RoundHalfEven((60000000 % tempo) * 100, tempo)

\* Every value that reaches tick2second's divisor in the model divides
\* Resolution, so the quotient below is exact.
Resolution == bpm2tempo(120)

\* mido.tick2second(tick, ticks_per_beat, tempo):
\*     scale = tempo * 1e-6 / ticks_per_beat ; return tick * scale
\* The result is in units of 1 / (1000000 * Resolution) seconds.  The
\* library's parameter order is (tick, ticks_per_beat, tempo).  A zero
\* ticks_per_beat raises ZeroDivisionError; the only call passes
\* current_tempo there, which is positive for every message of the model.
tick2second(tick, ticks_per_beat, tempo) ==
    tick * tempo * (Resolution \div ticks_per_beat)

\* f"{seconds:.5f}": the time as written, in units of 0.00001 seconds
Format5(seconds) == RoundHalfEven(seconds, 10 * Resolution)

\* ------------------------------------------------------------------------
\* map_note_to_36
\* ------------------------------------------------------------------------
map_note_to_36_NoFold(midi_note) ==
    LET folded_index == midi_note % (TARGET_SIZE + 1)
        target_note == folded_index + BASE_NOTE
    IN  target_note

map_note_to_36(midi_note) ==
    LET folded_index == midi_note % TARGET_SIZE
        target_note == folded_index + BASE_NOTE
    IN  target_note

\* ------------------------------------------------------------------------
\* Input files
\* ------------------------------------------------------------------------
\* A mido message: type, time (delta ticks), and the attributes of its type
\* (0 where the type has none).
Msg(type, time, note, velocity, tempo) ==
    [type |-> type, time |-> time, note |-> note, velocity |-> velocity,
     tempo |-> tempo]

Messages ==
    { Msg("set_tempo", 0, 0, 0, bpm2tempo(120)),
      Msg("set_tempo", 3840, 0, 0, bpm2tempo(240)),
      Msg("note_on", 480, 60, 100, 0),
      Msg("note_on", 3840, 127, 0, 0),
      Msg("note_off", 480, 60, 64, 0),
      Msg("note_off", 0, 127, 64, 0),
      Msg("control_change", 3840, 0, 0, 0) }

\* ticks_per_beat values of the header
Resolutions == {0, 480}

RECURSIVE SumLens(_, _)
SumLens(lens, k) == IF k = 0 THEN 0 ELSE SumLens(lens, k - 1) + lens[k]

\* the tracks whose lengths are lens[1..k] and whose messages, one track
\* after the other, are flat
SplitTracks(flat, lens, k) ==
    [t \in 1..k |->
        SubSeq(flat, SumLens(lens, t - 1) + 1, SumLens(lens, t))]

\* what is at the input path: nothing, a malformed file, or a MIDI file
NoFile == [exists |-> FALSE, wellformed |-> FALSE, ticks_per_beat |-> 0,
           tracks |-> <<>>]
Malformed == [exists |-> TRUE, wellformed |-> FALSE, ticks_per_beat |-> 0,
              tracks |-> <<>>]
MidiFile(ticks_per_beat, tracks) ==
    [exists |-> TRUE, wellformed |-> TRUE, ticks_per_beat |-> ticks_per_beat,
     tracks |-> tracks]

\* the output file as an earlier run left it: on|36|1.00000
PreviousOutput == << [action |-> "on", pitch |-> 36, time |-> 100000] >>

\* ------------------------------------------------------------------------
\* State
\* ------------------------------------------------------------------------
VARIABLES
    input,                  \* what is at file_path
    pc,                     \* position of the script
    ppq,                    \* midi_file.ticks_per_beat, once read
    current_tempo,          \* microseconds per beat
    absolute_tick_time,     \* ticks
    absolute_second_time,   \* units of 1 / (1000000 * Resolution) seconds
    track_no,               \* number of tracks entered (i + 1 in the loop)
    msg_no,                 \* number of messages of the track processed
    outfile,                \* lines of the output file
    outfile_state,          \* "untouched", "open" or "closed"
    console,                \* lines printed
    exit_status             \* -1 while running, then the exit status

vars == << input, pc, ppq, current_tempo, absolute_tick_time,
           absolute_second_time, track_no, msg_no, outfile, outfile_state,
           console, exit_status >>

Line(kind, a, b, c) == [kind |-> kind, a |-> a, b |-> b, c |-> c]

print_line(out, kind, a, b, c) == Append(out, Line(kind, a, b, c))

Init ==
    /\ \/ input = NoFile
       \/ input = Malformed
       \/ \E k \in 0..MaxTracks :
            \E lens \in [1..k -> 0..MaxMessages] :
               /\ SumLens(lens, k) <= MaxMessages
               /\ \E flat \in [1..SumLens(lens, k) -> Messages] :
                    \E tpb \in Resolutions :
                       input = MidiFile(tpb, SplitTracks(flat, lens, k))
    /\ pc = "start"
    /\ ppq = 0
    /\ current_tempo = 0
    /\ absolute_tick_time = 0
    /\ absolute_second_time = 0
    /\ track_no = 0
    /\ msg_no = 0
    /\ outfile = PreviousOutput
    /\ outfile_state = "untouched"
    /\ console = <<>>
    /\ exit_status = -1

\* ------------------------------------------------------------------------
\* ticks_to_seconds
\* ------------------------------------------------------------------------
\* the two header lines
Announce ==
    /\ pc = "start"
    /\ console' = print_line(print_line(console, "analysing", 0, 0, 0),
                           "writing_to", 0, 0, 0)
    /\ pc' = "exists"
    /\ UNCHANGED << input, ppq, current_tempo, absolute_tick_time,
                    absolute_second_time, track_no, msg_no, outfile,
                    outfile_state, exit_status >>

\* os.path.exists(file_path) is false: report and return
FileMissing ==
    /\ pc = "exists"
    /\ ~input.exists
    /\ console' = print_line(console, "missing", 0, 0, 0)
    /\ pc' = "returned"
    /\ UNCHANGED << input, ppq, current_tempo, absolute_tick_time,
                    absolute_second_time, track_no, msg_no, outfile,
                    outfile_state, exit_status >>

\* as if the output file were opened before the input is parsed
ParseFailsAfterOpen ==
    /\ pc = "exists"
    /\ input.exists
    /\ ~input.wellformed
    /\ outfile' = <<>>
    /\ outfile_state' = "closed"
    /\ console' = print_line(console, "error", 0, 0, 0)
    /\ pc' = "returned"
    /\ UNCHANGED << input, ppq, current_tempo, absolute_tick_time,
                    absolute_second_time, track_no, msg_no, exit_status >>

\* mido.MidiFile(file_path) raises: the except clause reports and returns
ParseFails ==
    /\ pc = "exists"
    /\ input.exists
    /\ ~input.wellformed
    /\ console' = print_line(console, "error", 0, 0, 0)
    /\ pc' = "returned"
    /\ UNCHANGED << input, ppq, current_tempo, absolute_tick_time,
                    absolute_second_time, track_no, msg_no, outfile,
                    outfile_state, exit_status >>

\* the file parses: read the PPQ, initialise tempo and counters, open the
\* output file for writing (which truncates it)
ParseOk ==
    /\ pc = "exists"
    /\ input.exists
    /\ input.wellformed
    /\ ppq' = input.ticks_per_beat
    /\ console' = print_line(console, "ppq", input.ticks_per_beat, 0, 0)
    /\ current_tempo' = bpm2tempo(120)
    /\ absolute_tick_time' = 0
    /\ absolute_second_time' = 0
    /\ outfile' = <<>>
    /\ outfile_state' = "open"
    /\ pc' = "loop"
    /\ UNCHANGED << input, track_no, msg_no, exit_status >>

\* the track is exhausted (or no track was entered yet)
TrackDone ==
    IF track_no = 0 THEN TRUE ELSE msg_no = Len(input.tracks[track_no])

\* for i, track in enumerate(midi_file.tracks): enter the next track
NextTrackResetsCounters ==
    /\ pc = "loop"
    /\ TrackDone
    /\ track_no < Len(input.tracks)
    /\ track_no' = track_no + 1
    /\ msg_no' = 0
    /\ absolute_tick_time' = 0
    /\ absolute_second_time' = 0
    /\ console' = print_line(console, "track", track_no, 0, 0)
    /\ UNCHANGED << input, pc, ppq, current_tempo, outfile, outfile_state,
                    exit_status >>

NextTrackResetsTempo ==
    /\ pc = "loop"
    /\ TrackDone
    /\ track_no < Len(input.tracks)
    /\ track_no' = track_no + 1
    /\ msg_no' = 0
    /\ current_tempo' = bpm2tempo(120)
    /\ console' = print_line(console, "track", track_no, 0, 0)
    /\ UNCHANGED << input, pc, ppq, absolute_tick_time, absolute_second_time,
                    outfile, outfile_state, exit_status >>

NextTrack ==
    /\ pc = "loop"
    /\ TrackDone
    /\ track_no < Len(input.tracks)
    /\ track_no' = track_no + 1
    /\ msg_no' = 0
    /\ console' = print_line(console, "track", track_no, 0, 0)
    /\ UNCHANGED << input, pc, ppq, current_tempo, absolute_tick_time,
                    absolute_second_time, outfile, outfile_state,
                    exit_status >>

\* the condition under which a line is written
WritesLine(msg) ==
    \/ (msg.type = "note_on" /\ msg.velocity > 0)
    \/ msg.type = "note_off"

ActionOf(msg) ==
    IF msg.type = "note_on" /\ msg.velocity > 0 THEN "on" ELSE "off"

\* outfile.write(output_line)
WriteTruncating(out, line) == << line >>

Write(out, line) == Append(out, line)

\* absolute_tick_time += msg.time
AddTicksAssigns(ticks, time) == time

AddTicks(ticks, time) == ticks + time

\* for msg in track: one iteration of the loop body
ProcessMsg ==
    /\ pc = "loop"
    /\ track_no >= 1
    /\ msg_no < Len(input.tracks[track_no])
    /\ LET msg == input.tracks[track_no][msg_no + 1]
           ticks == AddTicks(absolute_tick_time, msg.time)
           delta_seconds == tick2second(msg.time, current_tempo, ppq)
           seconds == absolute_second_time + delta_seconds
           tempo == IF msg.type = "set_tempo" THEN msg.tempo
                    ELSE current_tempo
       IN  /\ absolute_tick_time' = ticks
           /\ absolute_second_time' = seconds
           /\ current_tempo' = tempo
           /\ console' =
                IF msg.type = "set_tempo"
                THEN print_line(console, "tempo", Format5(seconds), ticks,
                           tempo2bpm(tempo))
                ELSE console
           /\ outfile' =
                IF WritesLine(msg)
                THEN Write(outfile,
                           [action |-> ActionOf(msg),
                            pitch |-> map_note_to_36(msg.note),
                            time |-> Format5(seconds)])
                ELSE outfile
    /\ msg_no' = msg_no + 1
    /\ UNCHANGED << input, pc, ppq, track_no, outfile_state, exit_status >>

\* the loops are over: the with block closes the file, success is printed
Complete ==
    /\ pc = "loop"
    /\ TrackDone
    /\ track_no = Len(input.tracks)
    /\ outfile_state' = "closed"
    /\ console' = print_line(console, "success", 0, 0, 0)
    /\ pc' = "returned"
    /\ UNCHANGED << input, ppq, current_tempo, absolute_tick_time,
                    absolute_second_time, track_no, msg_no, outfile,
                    exit_status >>

\* the call returns and the script ends
ScriptEnds ==
    /\ pc = "returned"
    /\ pc' = "exited"
    /\ exit_status' = 0
    /\ UNCHANGED << input, ppq, current_tempo, absolute_tick_time,
                    absolute_second_time, track_no, msg_no, outfile,
                    outfile_state, console >>

Next ==
    \/ Announce
    \/ FileMissing
    \/ ParseFails
    \/ ParseOk
    \/ NextTrack
    \/ ProcessMsg
    \/ Complete
    \/ ScriptEnds

Spec == Init /\ [][Next]_vars

\* ------------------------------------------------------------------------
\* Vocabulary of the properties
\* ------------------------------------------------------------------------
\* the conversion has parsed the file and opened the output
Converting == outfile_state /= "untouched"

RECURSIVE Concat(_, _)
Concat(tracks, n) ==
    IF n = 0 THEN <<>> ELSE Concat(tracks, n - 1) \o tracks[n]

\* positions << track, message >> of track t up to message m
Positions(t, m) == [x \in 1..m |-> << t, x >>]

RECURSIVE PositionsUpTo(_)
PositionsUpTo(n) ==
    IF n = 0 THEN <<>>
    ELSE PositionsUpTo(n - 1) \o Positions(n, Len(input.tracks[n]))

\* the positions visited so far, in the order of the visit
VisitedPos ==
    IF track_no = 0 THEN <<>>
    ELSE PositionsUpTo(track_no - 1) \o Positions(track_no, msg_no)

MsgAt(p) == input.tracks[p[1]][p[2]]

\* the messages visited so far
Visited == [x \in 1..Len(VisitedPos) |-> MsgAt(VisitedPos[x])]

\* the messages of the current track visited so far
VisitedOfTrack ==
    IF track_no = 0 THEN <<>> ELSE SubSeq(input.tracks[track_no], 1, msg_no)

RECURSIVE SumTime(_)
SumTime(msgs) ==
    IF msgs = <<>> THEN 0 ELSE msgs[1].time + SumTime(Tail(msgs))

\* the tempo of the last set_tempo among msgs, else dflt
RECURSIVE LastTempo(_, _)
LastTempo(msgs, dflt) ==
    IF msgs = <<>> THEN dflt
    ELSE IF msgs[Len(msgs)].type = "set_tempo" THEN msgs[Len(msgs)].tempo
    ELSE LastTempo(SubSeq(msgs, 1, Len(msgs) - 1), dflt)

\* a step that processes one message, and that message
ProcessStep == pc = "loop" /\ track_no >= 1 /\ msg_no' = msg_no + 1
Processed == input.tracks[track_no][msg_no + 1]

\* the message processed last
JustProcessed == pc = "loop" /\ track_no >= 1 /\ msg_no >= 1
LastMsg == input.tracks[track_no][msg_no]

HasLine(kind) == \E x \in 1..Len(console) : console[x].kind = kind

C2_VelocityZeroWritesOff ==
    [][(ProcessStep /\ Processed.type = "note_on" /\ Processed.velocity = 0)
        => outfile' = Append(outfile,
                             [action |-> "off",
                              pitch |-> (Processed.note % 36) + 36,
                              time |-> Format5(absolute_second_time')])]_vars

\* ------------------------------------------------------------------------
\* C3
\* ------------------------------------------------------------------------
\* C3 as stated: with ticksPerBeat > 0, every message advances
\* absoluteSeconds * 1000000 * ticksPerBeat by deltaTicks * (the tempo in
\* effect before the message).  absoluteSeconds * 1000000 is
\* absolute_second_time / Resolution.
C3_SecondsAdvanceByTempo ==
    [][(ProcessStep /\ ppq > 0) =>
        LET scaled == (absolute_second_time' - absolute_second_time) * ppq
        IN  /\ scaled % Resolution = 0
            /\ scaled \div Resolution = Processed.time * current_tempo]_vars

\* ------------------------------------------------------------------------
\* C4
\* ------------------------------------------------------------------------
\* C4: the tempo is 500000 before the first message, is otherwise the tempo
\* of the last set_tempo visited in any track so far, and a track boundary
\* leaves it as it is.
C4_TempoPersists ==
    Converting => current_tempo = LastTempo(Visited, 500000)

\* the first message of the second track was processed under a tempo set in
\* the first track
C4_Witness ==
    /\ JustProcessed
    /\ track_no = 2
    /\ msg_no = 1
    /\ LastMsg.type /= "set_tempo"
    /\ LastTempo(input.tracks[1], 500000) /= 500000
    /\ current_tempo = LastTempo(input.tracks[1], 500000)

\* ------------------------------------------------------------------------
\* C5
\* ------------------------------------------------------------------------
\* the messages for which line 91 writes: note_off, and note_on with a
\* positive velocity
C5_Qualifying(p) ==
    \/ MsgAt(p).type = "note_off"
    \/ MsgAt(p).type = "note_on" /\ MsgAt(p).velocity > 0

C5_QualifyingVisited == SelectSeq(VisitedPos, C5_Qualifying)

C6_MapTotalPeriodic ==
    /\ \A n \in 0..127 :
         /\ map_note_to_36(n) \in 36..71
         /\ map_note_to_36(n) - 36 \in {n, n - 36, n - 72, n - 108}
         /\ n + 36 <= 127 => map_note_to_36(n) = map_note_to_36(n + 36)
    /\ map_note_to_36(0) = 36
    /\ map_note_to_36(35) = 71
    /\ map_note_to_36(36) = 36
    /\ map_note_to_36(71) = 71
    /\ map_note_to_36(72) = 36

C6_PitchFolded ==
    /\ C6_MapTotalPeriodic
    /\ Converting => \A x \in 1..Len(outfile) : outfile[x].pitch \in 36..71

\* a line was written for note 127, three periods up
C6_Witness ==
    /\ JustProcessed
    /\ WritesLine(LastMsg)
    /\ LastMsg.note = 127
    /\ outfile[Len(outfile)].pitch = 55

\* ------------------------------------------------------------------------
\* C7
\* ------------------------------------------------------------------------
\* C7 as stated: with no file at the input path the run ends with a
\* non-zero exit status, the error reported, no success claimed, no line
\* written and no unhandled fault.
C7_MissingFileExitsNonZero ==
    (pc = "exited" /\ ~input.exists) =>
        /\ exit_status /= 0
        /\ HasLine("missing")
        /\ ~HasLine("success")
        /\ outfile_state = "untouched"

\* ------------------------------------------------------------------------
\* C8
\* ------------------------------------------------------------------------
\* C8 as stated: with ticks_per_beat = 0 the run ends with an error and a
\* non-zero exit status, claims no success and writes no line.
C8_ZeroResolutionFails ==
    (pc = "exited" /\ input.wellformed /\ input.ticks_per_beat = 0) =>
        /\ exit_status /= 0
        /\ HasLine("error")
        /\ ~HasLine("success")
        /\ outfile = <<>>

\* ------------------------------------------------------------------------
\* C9
\* ------------------------------------------------------------------------
\* C9: the output file is opened only after the existence check and the
\* parse succeeded: until then, and for good when either fails, it is
\* neither opened nor modified, no line is written, no success is claimed,
\* and the failure is reported.
C9_OutputUntouchedOnFailure ==
    /\ outfile_state = "untouched" => outfile = PreviousOutput
    /\ pc \in {"start", "exists"} => outfile_state = "untouched"
    /\ (pc \in {"returned", "exited"} /\ ~input.wellformed) =>
         /\ outfile_state = "untouched"
         /\ outfile = PreviousOutput
         /\ ~HasLine("success")
         /\ (input.exists => HasLine("error"))
         /\ (~input.exists => HasLine("missing"))

\* the run on a malformed file is over
C9_Witness ==
    /\ pc = "exited"
    /\ input.exists
    /\ ~input.wellformed
    /\ HasLine("error")

\* ------------------------------------------------------------------------
\* C10
\* ------------------------------------------------------------------------
\* C10: the counters are never negative, no message decreases them, the
\* tick counter is the sum of the deltas processed since the counters were
\* set to zero, and the times of the lines written from one track never
\* decrease.
C10_CountersMonotone ==
    /\ [](/\ absolute_tick_time >= 0
          /\ absolute_second_time >= 0
          /\ Converting => absolute_tick_time = SumTime(Visited)
          /\ Converting =>
               \A x, y \in 1..Len(outfile) :
                  (/\ x < y
                   /\ y <= Len(C5_QualifyingVisited)
                   /\ C5_QualifyingVisited[x][1] = C5_QualifyingVisited[y][1])
                  => outfile[x].time <= outfile[y].time)
    /\ [][ProcessStep =>
            /\ absolute_tick_time' >= absolute_tick_time
            /\ absolute_second_time' >= absolute_second_time]_vars

\* two lines of one track, the later one at a later written time, with a
\* positive ticks_per_beat
C10_Witness ==
    /\ JustProcessed
    /\ ppq > 0
    /\ Len(outfile) >= 2
    /\ Len(C5_QualifyingVisited) = Len(outfile)
    /\ C5_QualifyingVisited[Len(outfile)][1] =
          C5_QualifyingVisited[Len(outfile) - 1][1]
    /\ outfile[Len(outfile) - 1].time < outfile[Len(outfile)].time

====
